---- MODULE Spec2Model ----
(***************************************************************************)
(* GenericMQTTClient (libraries/ArduinoMQTT-master/GenericMQTTClient.h):   *)
(* the blocking MQTT client as a state machine.  One client instance, one  *)
(* caller.  An operation starts when the caller is idle, runs up to its    *)
(* first waitfor(), then advances one cycle() per step until waitfor()     *)
(* ends, and finishes in the state pc = "done" where the caller holds the  *)
(* return value; Return hands control back to the caller.                  *)
(*                                                                         *)
(* The build modelled is MQTTCLIENT_QOS1 = 1 and MQTTCLIENT_QOS2 = 1: the  *)
(* one in which every member the class declares exists.                    *)
(*                                                                         *)
(* The transport, the clock and the broker are the environment: every      *)
(* read, write and timer expiry is an input of the step that consumes it.  *)
(***************************************************************************)
EXTENDS Integers, Sequences, FiniteSets, TLC

(***************************************************************************)
(* Bounds of the model.                                                    *)
(***************************************************************************)
\* packet ids run 1..MaxPacketId and wrap to 1 (65535 in the library)
MaxPacketId == 2
\* template parameter MAX_MESSAGE_HANDLERS (default 5)
MAX_MESSAGE_HANDLERS == 2
\* MAX_INCOMING_QOS2_MESSAGES (default 10)
MAX_INCOMING_QOS2_MESSAGES == 2
\* the longest filter and topic name given to isTopicMatched, in characters
MaxTopicLen == 3
\* template parameter MAX_MQTT_PACKET_SIZE, the size of readbuf
MAX_MQTT_PACKET_SIZE == 100
\* the length bytes decodePacket reads at most
MAX_NO_OF_REMAINING_LENGTH_BYTES == 4

(***************************************************************************)
(* Return codes and packet types.                                          *)
(***************************************************************************)
SUCCESS == 0
FAILURE == -1
BUFFER_OVERFLOW == -2

CONNECT == 1
CONNACK == 2
PUBLISH == 3
PUBACK == 4
PUBREC == 5
PUBREL == 6
PUBCOMP == 7
SUBSCRIBE == 8
SUBACK == 9
UNSUBSCRIBE == 10
UNSUBACK == 11
PINGREQ == 12
PINGRESP == 13
DISCONNECT == 14

QOS0 == 0
QOS1 == 1
QOS2 == 2
\* SUBACK return code 0x80: the broker refused the subscription
SUBFAIL == 128
\* connack_rc before MQTTDeserialize_connack has written it
CONNACK_UNSET == 255

(***************************************************************************)
(* Packets.  A packet is what its bytes decode to; ok = FALSE is a packet  *)
(* whose type byte was read but which its MQTTDeserialize_* rejects.       *)
(* A read outcome is a packet, or a record whose type is the negative code *)
(* readPacket returns.                                                     *)
(***************************************************************************)
NoTopic == <<>>

Pkt(t, i, q, d, v, tp) ==
    [type |-> t, id |-> i, qos |-> q, dup |-> d, val |-> v, topic |-> tp, ok |-> TRUE]

Simple(t) == Pkt(t, 0, 0, 0, 0, NoTopic)

Ack(t, i) == Pkt(t, i, 0, 0, 0, NoTopic)

Malformed(t) == [Simple(t) EXCEPT !.ok = FALSE]

\* the bytes of a buffer nothing has been written to
NoPacket == Simple(0)

\* ipstack.read returned no byte, or fewer bytes than the packet has
ReadFailure == Simple(FAILURE)

\* remaining length larger than the receive buffer
ReadOverflow == Simple(BUFFER_OVERFLOW)

PacketIds == 1..MaxPacketId

QoSs == {QOS0, QOS1, QOS2}

Connacks == {Pkt(CONNACK, 0, 0, 0, v, NoTopic) : v \in {0, 5}}

Acks(t) == {Ack(t, i) : i \in PacketIds}

Subacks == {Pkt(SUBACK, i, 0, 0, v, NoTopic) : i \in {1}, v \in QoSs \cup {SUBFAIL}}

(***************************************************************************)
(* Topics are sequences of characters.                                     *)
(***************************************************************************)
\* a handler slot whose topicFilter pointer is 0
NULL == <<"NULL">>

\* an FP no function is attached to
NoFP == "none"

Range(s) == {s[k] : k \in 1..Len(s)}

VARIABLES
    \* the client's members
    isconnected, keepAliveInterval, cleansession, ping_outstanding,
    last_sent, last_received, packetid,
    messageHandlers, defaultMessageHandler,
    pubbuf, inflightLen, inflightMsgid, inflightQoS, pubrel,
    incomingQoS2messages, readbuf,
    \* the operation in progress: where it is, its timer, its locals
    pc, timer, frame,
    \* what the environment saw during the operation in progress: the packets
    \* written, the callbacks the last cycle invoked, what the last cycle
    \* returned and wrote, and the value returned to the caller
    wire, calls, cycled, result

members == <<isconnected, keepAliveInterval, cleansession, ping_outstanding,
             last_sent, last_received, packetid,
             messageHandlers, defaultMessageHandler,
             pubbuf, inflightLen, inflightMsgid, inflightQoS, pubrel,
             incomingQoS2messages, readbuf>>

vars == <<members, pc, timer, frame, wire, calls, cycled, result>>

(***************************************************************************)
(* MQTTPacketId::getNext (MQTTCommon.h): the id handed out, and the        *)
(* counter after it.                                                       *)
(***************************************************************************)
getNext == packetid

afterGetNext == IF packetid = MaxPacketId THEN 1 ELSE packetid + 1

(***************************************************************************)
(* The set of inbound QoS 2 ids: 0 marks a free entry.                     *)
(***************************************************************************)
isQoS2msgidFree(inq, id) == \A i \in 1..MAX_INCOMING_QOS2_MESSAGES : inq[i] # id

FirstFree(inq) ==
    LET free == {i \in 1..MAX_INCOMING_QOS2_MESSAGES : inq[i] = 0}
    IN  IF free = {} THEN 0 ELSE CHOOSE i \in free : \A j \in free : i <= j

\* [ok, inq]: the value returned and the array afterwards
useQoS2msgid(inq, id) ==
    IF FirstFree(inq) = 0
    THEN [ok |-> FALSE, inq |-> inq]
    ELSE [ok |-> TRUE, inq |-> [inq EXCEPT ![FirstFree(inq)] = id]]

freeQoS2msgid(inq, id) ==
    LET hit == {i \in 1..MAX_INCOMING_QOS2_MESSAGES : inq[i] = id}
    IN  IF hit = {} THEN inq
        ELSE [inq EXCEPT ![CHOOSE i \in hit : \A j \in hit : i <= j] = 0]

(***************************************************************************)
(* isTopicMatched: curf and curn are the positions i and j; the filter's   *)
(* terminating NUL is position Len(f) + 1.                                 *)
(***************************************************************************)
RECURSIVE SkipLevel(_, _)
SkipLevel(n, j) ==
    IF j + 1 <= Len(n) /\ n[j + 1] # "/" THEN SkipLevel(n, j + 1) ELSE j

RECURSIVE MatchLoop(_, _, _, _)
MatchLoop(f, n, i, j) ==
    IF i <= Len(f) /\ j <= Len(n)
    THEN IF n[j] = "/" /\ f[i] # "/"
         THEN <<i, j>>
         ELSE IF f[i] # "+" /\ f[i] # "#" /\ f[i] # n[j]
         THEN <<i, j>>
         ELSE IF f[i] = "+"
         THEN MatchLoop(f, n, i + 1, SkipLevel(n, j) + 1)
         ELSE IF f[i] = "#"
         THEN MatchLoop(f, n, i + 1, Len(n) + 1)
         ELSE MatchLoop(f, n, i + 1, j + 1)
    ELSE <<i, j>>

isTopicMatched(f, n) ==
    LET e == MatchLoop(f, n, 1, 1)
    IN  e[2] = Len(n) + 1 /\ e[1] = Len(f) + 1

(***************************************************************************)
(* deliverMessage: the callbacks invoked, in the order of the calls.       *)
(***************************************************************************)
HandlerFires(h, topic) ==
    /\ h.topicFilter # NULL
    /\ (h.topicFilter = topic \/ isTopicMatched(h.topicFilter, topic))
    /\ h.fp # NoFP

deliverMessage(topic) ==
    LET hit  == SelectSeq(messageHandlers, LAMBDA h : HandlerFires(h, topic))
        fired == [k \in 1..Len(hit) |-> hit[k].fp]
    IN  IF fired = <<>> /\ defaultMessageHandler # NoFP
        THEN <<defaultMessageHandler>>
        ELSE fired

(***************************************************************************)
(* sendPacket: w says whether the transport took all the bytes before the  *)
(* timer expired; expired is timer.expired() at the call; ka is the       *)
(* keepAliveInterval member at the call.  [rc, last_sent]                  *)
(***************************************************************************)
sendPacket(w, expired, ls, ka) ==
    IF w /\ ~expired
    THEN [rc |-> SUCCESS,
          last_sent |-> IF ka > 0 THEN "running" ELSE ls]
    ELSE [rc |-> FAILURE, last_sent |-> ls]

(***************************************************************************)
(* readPacket: rd is what the transport delivers.  [rc, last_received]     *)
(***************************************************************************)
readPacket(rd) ==
    [rc |-> rd.type,
     last_received |-> IF rd.type >= 0 /\ keepAliveInterval > 0
                       THEN "running" ELSE last_received]

(***************************************************************************)
(* keepalive, on the members as cycle has left them (c): kw is the write   *)
(* of the PINGREQ under keepalive's own one-second timer.                  *)
(***************************************************************************)
pinged(c, s) ==
    IF s.rc = SUCCESS
    THEN [c EXCEPT !.ping = TRUE, !.last_sent = s.last_sent,
                   !.sent = c.sent \o <<Simple(PINGREQ)>>]
    ELSE c

\* a keepalive that does not ask ping_outstanding
keepaliveRepeating(c, kw) ==
    IF keepAliveInterval = 0
    THEN c
    ELSE IF c.last_sent = "expired" \/ c.last_received = "expired"
    THEN pinged(c, sendPacket(kw, FALSE, c.last_sent, keepAliveInterval))
    ELSE c

keepalive(c, kw) ==
    IF keepAliveInterval = 0
    THEN c
    ELSE IF (c.last_sent = "expired" \/ c.last_received = "expired") /\ ~c.ping
    THEN pinged(c, sendPacket(kw, FALSE, c.last_sent, keepAliveInterval))
    ELSE c

(***************************************************************************)
(* cycle: one packet of work.  The record c holds cycle's return value rc, *)
(* the members it leaves (ping, last_sent, last_received, inq), the        *)
(* packets it wrote (sent) and the callbacks it invoked (calls).  w is the *)
(* write of the acknowledgement cycle itself sends.                        *)
(***************************************************************************)
\* case PUBLISH, a dispatch that does not ask isQoS2msgidFree
dispatchedUnchecked(c, rd, use) ==
    IF rd.qos # QOS2
    THEN [c EXCEPT !.calls = deliverMessage(rd.topic)]
    ELSE IF use.ok
    THEN [c EXCEPT !.inq = use.inq, !.calls = deliverMessage(rd.topic)]
    ELSE c

\* case PUBLISH, the dispatch: to the handlers unless it is a QoS 2 message
\* whose id is in the set, or for whose id the set has no room
dispatched(c, rd, use) ==
    IF rd.qos # QOS2
    THEN [c EXCEPT !.calls = deliverMessage(rd.topic)]
    ELSE IF isQoS2msgidFree(c.inq, rd.id) /\ use.ok
    THEN [c EXCEPT !.inq = use.inq, !.calls = deliverMessage(rd.topic)]
    ELSE c

\* case PUBLISH, the acknowledgement: s is the result of its sendPacket
acknowledged(c, rd, s, kw) ==
    IF rd.qos = QOS0
    THEN keepalive(c, kw)
    ELSE IF s.rc = FAILURE
    THEN [c EXCEPT !.rc = FAILURE]
    ELSE keepalive([c EXCEPT !.last_sent = s.last_sent,
                             !.sent = c.sent \o
                                 <<Ack(IF rd.qos = QOS1 THEN PUBACK ELSE PUBREC, rd.id)>>],
                   kw)

cyclePublish(c, rd, w, kw) ==
    IF ~rd.ok
    THEN c
    ELSE acknowledged(dispatched(c, rd, useQoS2msgid(c.inq, rd.id)), rd,
                      sendPacket(w, FALSE, c.last_sent, keepAliveInterval), kw)

\* case PUBREC, case PUBREL: s is the result of the sendPacket
released(c, rd, s, kw) ==
    IF ~rd.ok \/ s.rc # SUCCESS
    THEN [c EXCEPT !.rc = FAILURE]
    ELSE keepalive([c EXCEPT !.last_sent = s.last_sent,
                             !.sent = c.sent \o
                                 <<Ack(IF rd.type = PUBREC THEN PUBREL ELSE PUBCOMP, rd.id)>>,
                             !.inq = IF rd.type = PUBREL
                                     THEN freeQoS2msgid(c.inq, rd.id)
                                     ELSE c.inq],
                   kw)

cycleRelease(c, rd, w, kw) ==
    released(c, rd, sendPacket(w, FALSE, c.last_sent, keepAliveInterval), kw)

switch(c, rd, w, kw) ==
    CASE c.rc = PUBLISH -> cyclePublish(c, rd, w, kw)
      [] c.rc \in {PUBREC, PUBREL} -> cycleRelease(c, rd, w, kw)
      [] c.rc = PINGRESP -> keepalive([c EXCEPT !.ping = FALSE], kw)
      [] OTHER -> keepalive(c, kw)

\* the members before the cycle, and what readPacket returned
entered(rp) ==
    [rc |-> rp.rc, ping |-> ping_outstanding, last_sent |-> last_sent,
     last_received |-> rp.last_received, inq |-> incomingQoS2messages,
     sent |-> <<>>, calls |-> <<>>]

cycle(rd, w, kw) == switch(entered(readPacket(rd)), rd, w, kw)

(***************************************************************************)
(* waitfor, one turn of its loop: the timer has expired and the loop ends  *)
(* ("timeout"), or a cycle runs and returns the awaited type ("got") or    *)
(* anything else ("again").                                                *)
(***************************************************************************)
turn(c, packet_type, rd) ==
    [rc |-> c.rc, ping |-> c.ping, last_sent |-> c.last_sent,
     last_received |-> c.last_received, inq |-> c.inq,
     sent |-> c.sent, calls |-> c.calls,
     fin |-> IF c.rc = packet_type THEN "got" ELSE "again",
     readbuf |-> IF rd.type >= 0 THEN rd ELSE readbuf]

\* a waitfor that does not ask its timer
waitforUntimed(packet_type, rd, w, kw) ==
    turn(cycle(rd, w, kw), packet_type, rd)

waitfor(packet_type, rd, w, kw) ==
    IF timer = "expired"
    THEN [rc |-> FAILURE, ping |-> ping_outstanding, last_sent |-> last_sent,
          last_received |-> last_received, inq |-> incomingQoS2messages,
          sent |-> <<>>, calls |-> <<>>, fin |-> "timeout", readbuf |-> readbuf]
    ELSE turn(cycle(rd, w, kw), packet_type, rd)

NoFrame == [qos |-> QOS0, id |-> 0, filter |-> NULL, fp |-> NoFP,
            connack_rc |-> CONNACK_UNSET]

NoResult == [op |-> "none", rc |-> SUCCESS]

\* no cycle has run in the operation, or its waitfor found the timer expired
NoCycle == [rc |-> SUCCESS, sent |-> <<>>]

Init ==
    /\ isconnected = FALSE
    /\ keepAliveInterval \in {0, 1}   \* the constructor does not set it
    /\ cleansession \in BOOLEAN        \* nor this
    /\ ping_outstanding = FALSE
    /\ last_sent = "running"
    /\ last_received = "running"
    /\ packetid = 1
    /\ messageHandlers = [i \in 1..MAX_MESSAGE_HANDLERS |-> [topicFilter |-> NULL, fp |-> NoFP]]
    /\ defaultMessageHandler = NoFP
    /\ pubbuf = NoPacket
    /\ inflightLen = 0
    /\ inflightMsgid = 0
    /\ inflightQoS = QOS0
    /\ pubrel = FALSE
    /\ incomingQoS2messages = [i \in 1..MAX_INCOMING_QOS2_MESSAGES |-> 0]
    /\ readbuf = NoPacket
    /\ pc = "idle"
    /\ timer = "running"
    /\ frame = NoFrame
    /\ wire = {}
    /\ calls = <<>>
    /\ cycled = NoCycle
    /\ result = NoResult

\* the operation returns rc to the caller
Finish(op, rc) ==
    /\ pc' = "done"
    /\ result' = [op |-> op, rc |-> rc]

\* the members one turn of waitfor leaves, but for last_sent
AfterCycle(c) ==
    /\ ping_outstanding' = c.ping
    /\ last_received' = c.last_received
    /\ incomingQoS2messages' = c.inq
    /\ readbuf' = c.readbuf
    /\ calls' = c.calls
    /\ cycled' = IF c.fin = "timeout" THEN NoCycle ELSE [rc |-> c.rc, sent |-> c.sent]

\* the loop of waitfor goes round again
Again(c) ==
    /\ last_sent' = c.last_sent
    /\ wire' = wire \cup Range(c.sent)
    /\ UNCHANGED <<pc, timer, frame, result>>

(***************************************************************************)
(* The length MQTTSerialize_publish returns: fixed header, topic length,   *)
(* and the packet id when qos > 0 (topic and payload are left empty).      *)
(***************************************************************************)
PublishLen(qos) == IF qos > QOS0 THEN 6 ELSE 4

(***************************************************************************)
(* connect(options), up to waitfor(CONNACK).  fits: MQTTSerialize_connect  *)
(* returned a length > 0; w: the write of the CONNECT.                     *)
(***************************************************************************)
Connect(cs, ka, fits, w) ==
    LET s == sendPacket(w, FALSE, last_sent, ka)
    IN  /\ pc = "idle"
        /\ UNCHANGED <<ping_outstanding, packetid, messageHandlers,
                       defaultMessageHandler, pubbuf, inflightLen, inflightMsgid,
                       inflightQoS, pubrel, incomingQoS2messages, readbuf,
                       isconnected, frame, calls, cycled, timer>>
        /\ IF isconnected
           THEN /\ Finish("connect", FAILURE)
                /\ UNCHANGED <<keepAliveInterval, cleansession, last_sent,
                               last_received, wire>>
           ELSE /\ keepAliveInterval' = ka
                /\ cleansession' = cs
                /\ IF ~fits \/ s.rc # SUCCESS
                   THEN /\ Finish("connect", FAILURE)
                        /\ UNCHANGED <<last_sent, last_received, wire>>
                   ELSE /\ last_sent' = s.last_sent
                        /\ last_received' = IF ka > 0 THEN "running" ELSE last_received
                        /\ wire' = {Simple(CONNECT)}
                        /\ pc' = "connect"
                        /\ UNCHANGED result

(***************************************************************************)
(* The in-flight message connect sends again: the PUBREL of a QoS 2        *)
(* publish whose PUBREC has come, else the bytes of pubbuf; NoPacket when  *)
(* there is none.                                                          *)
(***************************************************************************)
ResendQoS2Only ==
    IF inflightMsgid > 0 /\ inflightQoS = QOS2
    THEN IF pubrel THEN Ack(PUBREL, inflightMsgid) ELSE pubbuf
    ELSE NoPacket

Resend ==
    IF inflightMsgid > 0 /\ inflightQoS = QOS2 /\ pubrel
    THEN Ack(PUBREL, inflightMsgid)
    ELSE IF inflightMsgid > 0
    THEN pubbuf
    ELSE NoPacket

(***************************************************************************)
(* connect, one turn of waitfor(CONNACK), and when it ends the rest of     *)
(* connect: the return code of the CONNACK, then the in-flight message     *)
(* sent again through publish(len, timer, qos).  w2: the write of it.      *)
(***************************************************************************)
ConnectWait(rd, w, kw, w2) ==
    \E c \in {waitfor(CONNACK, rd, w, kw)} :
    LET rc  == IF c.fin = "got" /\ rd.ok THEN rd.val ELSE FAILURE
        s   == sendPacket(w2, timer = "expired", c.last_sent, keepAliveInterval)
    IN  /\ pc = "connect"
        /\ AfterCycle(c)
        /\ UNCHANGED <<keepAliveInterval, cleansession, packetid, messageHandlers,
                       defaultMessageHandler, pubbuf, inflightLen, inflightMsgid,
                       inflightQoS, pubrel>>
        /\ IF c.fin = "again"
           THEN Again(c) /\ UNCHANGED isconnected
           ELSE /\ frame' = [frame EXCEPT !.connack_rc =
                                IF c.fin = "got" /\ rd.ok THEN rd.val ELSE CONNACK_UNSET]
                /\ UNCHANGED timer
                /\ IF Resend = NoPacket
                   THEN /\ isconnected' = (rc = SUCCESS)
                        /\ last_sent' = c.last_sent
                        /\ wire' = wire \cup Range(c.sent)
                        /\ Finish("connect", rc)
                   ELSE IF s.rc # SUCCESS
                   THEN /\ isconnected' = FALSE
                        /\ last_sent' = c.last_sent
                        /\ wire' = wire \cup Range(c.sent)
                        /\ Finish("connect", FAILURE)
                   ELSE /\ last_sent' = s.last_sent
                        /\ wire' = wire \cup Range(c.sent) \cup {Resend}
                        /\ IF inflightQoS = QOS1
                           THEN /\ pc' = "replay"
                                /\ UNCHANGED <<isconnected, result>>
                           ELSE /\ isconnected' = TRUE
                                /\ Finish("connect", SUCCESS)

(***************************************************************************)
(* publish(len, timer, qos) after its sendPacket: one turn of              *)
(* waitfor(PUBACK), and when it ends the rest of publish.  It was entered  *)
(* from publish(topicName, ...) (pc = "publish") or from connect           *)
(* (pc = "replay"), which then sets isconnected when publish returned 0.   *)
(***************************************************************************)
PublishWait(rd, w, kw) ==
    \E c \in {waitfor(PUBACK, rd, w, kw)} :
    LET rc == IF c.fin = "got" /\ rd.ok THEN SUCCESS ELSE FAILURE
    IN  /\ pc \in {"publish", "replay"}
        /\ AfterCycle(c)
        /\ UNCHANGED <<keepAliveInterval, cleansession, packetid, messageHandlers,
                       defaultMessageHandler, pubbuf, inflightLen, inflightQoS, pubrel>>
        /\ IF c.fin = "again"
           THEN Again(c) /\ UNCHANGED <<isconnected, inflightMsgid>>
           ELSE /\ last_sent' = c.last_sent
                /\ wire' = wire \cup Range(c.sent)
                /\ inflightMsgid' = IF c.fin = "got" /\ rd.ok /\ inflightMsgid = rd.id
                                    THEN 0 ELSE inflightMsgid
                /\ isconnected' = IF rc # SUCCESS THEN FALSE
                                  ELSE IF pc = "replay" THEN TRUE ELSE isconnected
                /\ Finish(IF pc = "replay" THEN "connect" ELSE "publish", rc)
                /\ UNCHANGED <<timer, frame>>

(***************************************************************************)
(* publish(topicName, payload, payloadlen, id, qos, retained), up to the   *)
(* waitfor in publish(len, timer, qos).  idarg is the value the caller's   *)
(* id holds at the call (0 in the overload without an id); fits:           *)
(* MQTTSerialize_publish returned a length > 0; w: the write.              *)
(***************************************************************************)
Publish(qos, idarg, fits, w) ==
    LET id  == IF qos = QOS1 \/ qos = QOS2 THEN getNext ELSE idarg
        pkt == Pkt(PUBLISH, IF qos > QOS0 THEN id ELSE 0, qos, 0, 0, NoTopic)
        s   == sendPacket(w, FALSE, last_sent, keepAliveInterval)
    IN  /\ pc = "idle"
        /\ UNCHANGED <<keepAliveInterval, cleansession, ping_outstanding,
                       last_received, messageHandlers, defaultMessageHandler,
                       incomingQoS2messages, readbuf, calls, cycled, timer>>
        /\ IF ~isconnected
           THEN /\ Finish("publish", FAILURE)
                /\ UNCHANGED <<isconnected, last_sent, packetid, pubbuf, inflightLen,
                               inflightMsgid, inflightQoS, pubrel, frame, wire>>
           ELSE /\ packetid' = IF qos = QOS1 \/ qos = QOS2 THEN afterGetNext ELSE packetid
                /\ frame' = [frame EXCEPT !.qos = qos, !.id = id]
                /\ IF ~fits
                   THEN /\ Finish("publish", FAILURE)
                        /\ UNCHANGED <<isconnected, last_sent, pubbuf, inflightLen,
                                       inflightMsgid, inflightQoS, pubrel, wire>>
                   ELSE /\ IF ~cleansession
                           THEN /\ pubbuf' = pkt
                                /\ inflightMsgid' = id
                                /\ inflightLen' = PublishLen(qos)
                                /\ inflightQoS' = qos
                                /\ pubrel' = FALSE
                           ELSE UNCHANGED <<pubbuf, inflightLen, inflightMsgid,
                                            inflightQoS, pubrel>>
                        /\ last_sent' = s.last_sent
                        /\ wire' = IF s.rc = SUCCESS THEN {pkt} ELSE {}
                        /\ IF s.rc # SUCCESS
                           THEN isconnected' = FALSE /\ Finish("publish", FAILURE)
                           ELSE IF qos = QOS1
                           THEN pc' = "publish" /\ UNCHANGED <<isconnected, result>>
                           ELSE UNCHANGED isconnected /\ Finish("publish", SUCCESS)

(***************************************************************************)
(* disconnect(): w is the write of the DISCONNECT.                         *)
(***************************************************************************)
Disconnect(w) ==
    LET s == sendPacket(w, FALSE, last_sent, keepAliveInterval)
    IN  /\ pc = "idle"
        /\ last_sent' = s.last_sent
        /\ wire' = IF s.rc = SUCCESS THEN {Simple(DISCONNECT)} ELSE {}
        /\ isconnected' = FALSE
        /\ Finish("disconnect", s.rc)
        /\ UNCHANGED <<keepAliveInterval, cleansession, ping_outstanding,
                       last_received, packetid, messageHandlers,
                       defaultMessageHandler, pubbuf, inflightLen, inflightMsgid,
                       inflightQoS, pubrel, incomingQoS2messages, readbuf,
                       timer, frame, calls, cycled>>

(***************************************************************************)
(* subscribe(topicFilter, qos, fp), up to waitfor(SUBACK).  fits:          *)
(* MQTTSerialize_subscribe returned a length > 0; w: the write.            *)
(***************************************************************************)
Subscribe(topicFilter, qos, fp, fits, w) ==
    LET s == sendPacket(w, FALSE, last_sent, keepAliveInterval)
    IN  /\ pc = "idle"
        /\ UNCHANGED <<keepAliveInterval, cleansession, ping_outstanding,
                       last_received, messageHandlers, defaultMessageHandler,
                       pubbuf, inflightLen, inflightMsgid, inflightQoS, pubrel,
                       incomingQoS2messages, readbuf, calls, cycled, timer>>
        /\ IF ~isconnected
           THEN /\ Finish("subscribe", FAILURE)
                /\ UNCHANGED <<isconnected, last_sent, packetid, frame, wire>>
           ELSE /\ packetid' = afterGetNext
                /\ frame' = [frame EXCEPT !.qos = qos, !.id = getNext,
                                          !.filter = topicFilter, !.fp = fp]
                /\ IF ~fits \/ s.rc # SUCCESS
                   THEN /\ isconnected' = FALSE
                        /\ Finish("subscribe", FAILURE)
                        /\ UNCHANGED <<last_sent, wire>>
                   ELSE /\ last_sent' = s.last_sent
                        /\ wire' = {Pkt(SUBSCRIBE, getNext, qos, 0, 0, topicFilter)}
                        /\ pc' = "subscribe"
                        /\ UNCHANGED <<isconnected, result>>

(***************************************************************************)
(* The handler table after subscribe's loop over it, and the slot the loop *)
(* stopped at (0 when no slot is empty).                                   *)
(***************************************************************************)
EmptySlot ==
    LET free == {i \in 1..MAX_MESSAGE_HANDLERS : messageHandlers[i].topicFilter = NULL}
    IN  IF free = {} THEN 0 ELSE CHOOSE i \in free : \A j \in free : i <= j

Installed(topicFilter, fp) ==
    IF EmptySlot = 0
    THEN messageHandlers
    ELSE [messageHandlers EXCEPT ![EmptySlot] = [topicFilter |-> topicFilter, fp |-> fp]]

(***************************************************************************)
(* subscribe, one turn of waitfor(SUBACK), and when it ends the rest of    *)
(* subscribe.  granted is rc after MQTTDeserialize_suback: the granted QoS *)
(* when it returned 1, else still the 0 sendPacket returned.               *)
(***************************************************************************)
SubscribeRc(granted) ==
    IF granted # SUBFAIL /\ EmptySlot # 0 THEN 0 ELSE granted

SubscribeWait(rd, w, kw) ==
    \E c \in {waitfor(SUBACK, rd, w, kw)} :
    LET granted == IF rd.ok THEN rd.val ELSE SUCCESS
        rc      == IF c.fin = "got" THEN SubscribeRc(granted) ELSE FAILURE
    IN  /\ pc = "subscribe"
        /\ AfterCycle(c)
        /\ UNCHANGED <<keepAliveInterval, cleansession, packetid,
                       defaultMessageHandler, pubbuf, inflightLen, inflightMsgid,
                       inflightQoS, pubrel>>
        /\ IF c.fin = "again"
           THEN Again(c) /\ UNCHANGED <<isconnected, messageHandlers>>
           ELSE /\ last_sent' = c.last_sent
                /\ wire' = wire \cup Range(c.sent)
                /\ messageHandlers' = IF c.fin = "got" /\ granted # SUBFAIL
                                      THEN Installed(frame.filter, frame.fp)
                                      ELSE messageHandlers
                /\ isconnected' = IF rc # SUCCESS THEN FALSE ELSE isconnected
                /\ Finish("subscribe", rc)
                /\ UNCHANGED <<timer, frame>>

(***************************************************************************)
(* unsubscribe(topicFilter) without its test of isconnected.               *)
(***************************************************************************)
UnsubscribeUnchecked(topicFilter, fits, w) ==
    LET s == sendPacket(w, FALSE, last_sent, keepAliveInterval)
    IN  /\ pc = "idle"
        /\ UNCHANGED <<keepAliveInterval, cleansession, ping_outstanding,
                       last_received, messageHandlers, defaultMessageHandler,
                       pubbuf, inflightLen, inflightMsgid, inflightQoS, pubrel,
                       incomingQoS2messages, readbuf, calls, cycled, timer>>
        /\ packetid' = afterGetNext
        /\ frame' = [frame EXCEPT !.id = getNext, !.filter = topicFilter]
        /\ IF ~fits \/ s.rc # SUCCESS
           THEN /\ isconnected' = FALSE
                /\ Finish("unsubscribe", FAILURE)
                /\ UNCHANGED <<last_sent, wire>>
           ELSE /\ last_sent' = s.last_sent
                /\ wire' = {Pkt(UNSUBSCRIBE, getNext, 0, 0, 0, topicFilter)}
                /\ pc' = "unsubscribe"
                /\ UNCHANGED <<isconnected, result>>

(***************************************************************************)
(* unsubscribe(topicFilter), up to waitfor(UNSUBACK).                      *)
(***************************************************************************)
Unsubscribe(topicFilter, fits, w) ==
    LET s == sendPacket(w, FALSE, last_sent, keepAliveInterval)
    IN  /\ pc = "idle"
        /\ UNCHANGED <<keepAliveInterval, cleansession, ping_outstanding,
                       last_received, messageHandlers, defaultMessageHandler,
                       pubbuf, inflightLen, inflightMsgid, inflightQoS, pubrel,
                       incomingQoS2messages, readbuf, calls, cycled, timer>>
        /\ IF ~isconnected
           THEN /\ Finish("unsubscribe", FAILURE)
                /\ UNCHANGED <<isconnected, last_sent, packetid, frame, wire>>
           ELSE /\ packetid' = afterGetNext
                /\ frame' = [frame EXCEPT !.id = getNext, !.filter = topicFilter]
                /\ IF ~fits \/ s.rc # SUCCESS
                   THEN /\ isconnected' = FALSE
                        /\ Finish("unsubscribe", FAILURE)
                        /\ UNCHANGED <<last_sent, wire>>
                   ELSE /\ last_sent' = s.last_sent
                        /\ wire' = {Pkt(UNSUBSCRIBE, getNext, 0, 0, 0, topicFilter)}
                        /\ pc' = "unsubscribe"
                        /\ UNCHANGED <<isconnected, result>>

(***************************************************************************)
(* unsubscribe, one turn of waitfor(UNSUBACK), and when it ends the rest   *)
(* of unsubscribe: rc is 0 whatever MQTTDeserialize_unsuback returned.     *)
(***************************************************************************)
UnsubscribeWait(rd, w, kw) ==
    \E c \in {waitfor(UNSUBACK, rd, w, kw)} :
    LET rc == IF c.fin = "got" THEN SUCCESS ELSE FAILURE
    IN  /\ pc = "unsubscribe"
        /\ AfterCycle(c)
        /\ UNCHANGED <<keepAliveInterval, cleansession, packetid, messageHandlers,
                       defaultMessageHandler, pubbuf, inflightLen, inflightMsgid,
                       inflightQoS, pubrel>>
        /\ IF c.fin = "again"
           THEN Again(c) /\ UNCHANGED isconnected
           ELSE /\ last_sent' = c.last_sent
                /\ wire' = wire \cup Range(c.sent)
                /\ isconnected' = IF rc # SUCCESS THEN FALSE ELSE isconnected
                /\ Finish("unsubscribe", rc)
                /\ UNCHANGED <<timer, frame>>

(***************************************************************************)
(* yield(timeout_ms): the call, then one turn of its loop per step.  The   *)
(* loop ends when the timer has expired (rc = SUCCESS) or a cycle returned *)
(* a negative code (rc = FAILURE).  The loop of yield awaits no packet, so *)
(* of what it wrote wire keeps the packets of its last cycle only.         *)
(***************************************************************************)
Yield ==
    /\ pc = "idle"
    /\ pc' = "yield"
    /\ UNCHANGED <<members, timer, frame, wire, calls, cycled, result>>

YieldWait(rd, w, kw) ==
    \E c \in {waitfor(FAILURE, rd, w, kw)} :
        /\ pc = "yield"
        /\ AfterCycle(c)
        /\ UNCHANGED <<isconnected, keepAliveInterval, cleansession, packetid,
                       messageHandlers, defaultMessageHandler, pubbuf, inflightLen,
                       inflightMsgid, inflightQoS, pubrel>>
        /\ last_sent' = c.last_sent
        /\ wire' = Range(c.sent)
        /\ UNCHANGED <<timer, frame>>
        /\ IF c.fin # "timeout" /\ c.rc >= 0
           THEN UNCHANGED <<pc, result>>
           ELSE Finish("yield", IF c.fin = "timeout" THEN SUCCESS ELSE FAILURE)

(***************************************************************************)
(* setDefaultMessageHandler(mh)                                            *)
(***************************************************************************)
SetDefaultMessageHandler(mh) ==
    /\ pc = "idle"
    /\ defaultMessageHandler' = mh
    /\ UNCHANGED <<isconnected, keepAliveInterval, cleansession, ping_outstanding,
                   last_sent, last_received, packetid, messageHandlers,
                   pubbuf, inflightLen, inflightMsgid, inflightQoS, pubrel,
                   incomingQoS2messages, readbuf, pc, timer, frame, wire, calls, cycled,
                   result>>

(***************************************************************************)
(* The timer of the operation in progress expires.                         *)
(***************************************************************************)
Tick ==
    /\ pc \notin {"idle", "done"}
    /\ timer = "running"
    /\ timer' = "expired"
    /\ UNCHANGED <<members, pc, frame, wire, calls, cycled, result>>

(***************************************************************************)
(* Time passes: a keepalive countdown, last_sent or last_received, runs    *)
(* out.                                                                    *)
(***************************************************************************)
Elapse ==
    /\ \/ last_sent = "running" /\ last_sent' = "expired" /\ UNCHANGED last_received
       \/ last_received = "running" /\ last_received' = "expired" /\ UNCHANGED last_sent
    /\ UNCHANGED <<isconnected, keepAliveInterval, cleansession, ping_outstanding,
                   packetid, messageHandlers, defaultMessageHandler, pubbuf,
                   inflightLen, inflightMsgid, inflightQoS, pubrel,
                   incomingQoS2messages, readbuf, pc, timer, frame, wire, calls,
                   cycled, result>>

(***************************************************************************)
(* The caller takes the return value.  The locals of the call are gone,    *)
(* and the bytes of readbuf are dead: every use of readbuf follows a       *)
(* readPacket of the same operation.                                       *)
(***************************************************************************)
Return ==
    /\ pc = "done"
    /\ pc' = "idle"
    /\ timer' = "running"
    /\ frame' = NoFrame
    /\ wire' = {}
    /\ calls' = <<>>
    /\ cycled' = NoCycle
    /\ result' = NoResult
    /\ readbuf' = NoPacket
    /\ UNCHANGED <<isconnected, keepAliveInterval, cleansession, ping_outstanding,
                   last_sent, last_received, packetid, messageHandlers,
                   defaultMessageHandler, pubbuf, inflightLen, inflightMsgid,
                   inflightQoS, pubrel, incomingQoS2messages>>

(***************************************************************************)
(* Spec: connect, publish and disconnect against a broker that answers     *)
(* with CONNACK, PUBACK, PUBREC and PUBCOMP, well-formed or not, or not at *)
(* all.  Keepalive is off (keepAliveInterval = 0).                         *)
(***************************************************************************)
\* the outcomes of the write cycle makes after reading rd: it writes an
\* acknowledgement for a PUBLISH, a PUBREC and a PUBREL only
AckWrites(rd) == IF rd.type \in {PUBLISH, PUBREC, PUBREL} THEN BOOLEAN ELSE {TRUE}

\* what the caller's id holds at a publish: 0 in the overload without an id
IdArgs == {0, 1}

Reads ==
    {ReadFailure, ReadOverflow} \cup Connacks \cup Acks(PUBACK) \cup Acks(PUBREC)
    \cup {Ack(PUBCOMP, 1), Malformed(CONNACK), Malformed(PUBACK)}

Next ==
    \/ \E cs \in BOOLEAN, fits \in BOOLEAN, w \in BOOLEAN : Connect(cs, 0, fits, w)
    \/ \E rd \in Reads : \E w \in AckWrites(rd), w2 \in BOOLEAN : ConnectWait(rd, w, TRUE, w2)
    \/ \E q \in QoSs, i \in IdArgs, fits \in BOOLEAN, w \in BOOLEAN :
          Publish(q, i, fits, w)
    \/ \E rd \in Reads : \E w \in AckWrites(rd) : PublishWait(rd, w, TRUE)
    \/ \E w \in BOOLEAN : Disconnect(w)
    \/ Yield
    \/ \E rd \in Reads : \E w \in AckWrites(rd) : YieldWait(rd, w, TRUE)
    \/ Tick
    \/ Return

Spec == Init /\ [][Next]_vars

(***************************************************************************)
(* SpecSub: subscribe and unsubscribe on a clean session, against a broker *)
(* that answers with CONNACK, SUBACK (granting or refusing, well-formed or *)
(* not) and UNSUBACK, or not at all.  Keepalive is off.                    *)
(***************************************************************************)
Filters == {<<"a">>, <<"+">>}

FPs == {"h1", "h2"}

ReadsSub ==
    {ReadFailure, Pkt(CONNACK, 0, 0, 0, 0, NoTopic), Malformed(SUBACK), Simple(UNSUBACK)}
    \cup Subacks

NextSub ==
    \/ \E fits \in BOOLEAN, w \in BOOLEAN : Connect(TRUE, 0, fits, w)
    \/ \E rd \in ReadsSub : \E w \in AckWrites(rd), w2 \in BOOLEAN : ConnectWait(rd, w, TRUE, w2)
    \/ \E f \in Filters, q \in QoSs, h \in FPs, fits \in BOOLEAN, w \in BOOLEAN :
          Subscribe(f, q, h, fits, w)
    \/ \E rd \in ReadsSub : \E w \in AckWrites(rd) : SubscribeWait(rd, w, TRUE)
    \/ \E f \in Filters, fits \in BOOLEAN, w \in BOOLEAN : Unsubscribe(f, fits, w)
    \/ \E rd \in ReadsSub : \E w \in AckWrites(rd) : UnsubscribeWait(rd, w, TRUE)
    \/ \E w \in BOOLEAN : Disconnect(w)
    \/ Tick
    \/ Return

SpecSub == Init /\ [][NextSub]_vars

(***************************************************************************)
(* SpecDeliver: inbound messages.  A clean session subscribes, and yield   *)
(* (or the wait of a command) reads PUBLISH packets of QoS 0, 1 and 2 on   *)
(* the topic "a" and the PUBRELs of the broker.  Keepalive is off.         *)
(***************************************************************************)
\* the packet ids the broker gives its QoS 2 messages
InboundIds == 1..3

Publishes ==
    {Pkt(PUBLISH, 0, QOS0, 0, 0, <<"a">>), Pkt(PUBLISH, 1, QOS1, 0, 0, <<"a">>)}

PublishesQoS2 == {Pkt(PUBLISH, i, QOS2, 0, 0, <<"a">>) : i \in InboundIds}

ReadsConnect == {ReadFailure, Pkt(CONNACK, 0, 0, 0, 0, NoTopic)}

ReadsSubscribe == {ReadFailure, Pkt(SUBACK, 1, 0, 0, 0, NoTopic)} \cup Publishes

ReadsDeliver ==
    {ReadFailure} \cup Publishes \cup PublishesQoS2
    \cup {Ack(PUBREL, i) : i \in InboundIds}

NextDeliver ==
    \/ \E fits \in BOOLEAN, w \in BOOLEAN : Connect(TRUE, 0, fits, w)
    \/ \E rd \in ReadsConnect : ConnectWait(rd, TRUE, TRUE, TRUE)
    \/ \E f \in Filters, w \in BOOLEAN : Subscribe(f, QOS0, "h1", TRUE, w)
    \/ \E rd \in ReadsSubscribe : \E w \in AckWrites(rd) : SubscribeWait(rd, w, TRUE)
    \/ Yield
    \/ \E rd \in ReadsDeliver : \E w \in AckWrites(rd) : YieldWait(rd, w, TRUE)
    \/ Tick
    \/ Return

SpecDeliver == Init /\ [][NextDeliver]_vars

(***************************************************************************)
(* SpecOps: every command, in clean and non-clean sessions, against a      *)
(* broker that acknowledges each of them or does not answer.  Keepalive is *)
(* off.                                                                    *)
(***************************************************************************)
ReadsOps ==
    {ReadFailure, Pkt(CONNACK, 0, 0, 0, 0, NoTopic), Ack(PUBACK, 1),
     Pkt(SUBACK, 1, 0, 0, 0, NoTopic), Simple(UNSUBACK)}

NextOps ==
    \/ \E cs \in BOOLEAN, w \in BOOLEAN : Connect(cs, 0, TRUE, w)
    \/ \E rd \in ReadsOps, w2 \in BOOLEAN : ConnectWait(rd, TRUE, TRUE, w2)
    \/ \E q \in QoSs, fits \in BOOLEAN, w \in BOOLEAN : Publish(q, 0, fits, w)
    \/ \E rd \in ReadsOps : PublishWait(rd, TRUE, TRUE)
    \/ \E fits \in BOOLEAN, w \in BOOLEAN : Subscribe(<<"a">>, QOS0, "h1", fits, w)
    \/ \E rd \in ReadsOps : SubscribeWait(rd, TRUE, TRUE)
    \/ \E fits \in BOOLEAN, w \in BOOLEAN : Unsubscribe(<<"a">>, fits, w)
    \/ \E rd \in ReadsOps : UnsubscribeWait(rd, TRUE, TRUE)
    \/ \E w \in BOOLEAN : Disconnect(w)
    \/ Tick
    \/ Return

SpecOps == Init /\ [][NextOps]_vars

(***************************************************************************)
(* SpecKeepalive: sessions with and without a keepalive interval, whose    *)
(* countdowns run out at any time, against a broker that answers with      *)
(* CONNACK and PINGRESP and sends QoS 1 messages, or sends nothing.  kw is *)
(* the write of the PINGREQ.                                               *)
(***************************************************************************)
ReadsKeepalive ==
    {ReadFailure, Pkt(CONNACK, 0, 0, 0, 0, NoTopic), Simple(PINGRESP),
     Pkt(PUBLISH, 1, QOS1, 0, 0, <<"a">>)}

NextKeepalive ==
    \/ \E ka \in {0, 1}, w \in BOOLEAN : Connect(TRUE, ka, TRUE, w)
    \/ \E rd \in ReadsKeepalive, kw \in BOOLEAN :
          \E w \in AckWrites(rd) : ConnectWait(rd, w, kw, TRUE)
    \/ Yield
    \/ \E rd \in ReadsKeepalive, kw \in BOOLEAN :
          \E w \in AckWrites(rd) : YieldWait(rd, w, kw)
    \/ \E w \in BOOLEAN : Disconnect(w)
    \/ Elapse
    \/ Tick
    \/ Return

SpecKeepalive == Init /\ [][NextKeepalive]_vars

(***************************************************************************)
(* SpecMatch: isTopicMatched applied to a filter and the topic name of a   *)
(* PUBLISH: every well-formed filter over a, +, # and / and every topic    *)
(* name over a, b and / whose levels are not empty, of at most MaxTopicLen *)
(* characters, and the six pairs the specification lists.                  *)
(***************************************************************************)
Strings(alphabet) == UNION {[1..k -> alphabet] : k \in 1..MaxTopicLen}

\* the levels of a filter or topic name: what its separators divide it into
RECURSIVE Levels(_)
Levels(str) ==
    IF \A k \in 1..Len(str) : str[k] # "/"
    THEN <<str>>
    ELSE LET k == CHOOSE k \in 1..Len(str) :
                      str[k] = "/" /\ \A j \in 1..(k - 1) : str[j] # "/"
         IN  <<SubSeq(str, 1, k - 1)>> \o Levels(SubSeq(str, k + 1, Len(str)))

\* + and # stand alone in their level, # in the last level only, and no
\* level is empty
WellFormedFilter(f) ==
    LET ls == Levels(f)
    IN  \A k \in 1..Len(ls) :
            /\ ls[k] # <<>>
            /\ ("+" \in Range(ls[k]) \/ "#" \in Range(ls[k])) => Len(ls[k]) = 1
            /\ ls[k] = <<"#">> => k = Len(ls)

WellFormedName(n) == \A k \in 1..Len(Levels(n)) : Levels(n)[k] # <<>>

MatchFilters == {f \in Strings({"a", "+", "#", "/"}) : WellFormedFilter(f)}

MatchNames == {n \in Strings({"a", "b", "/"}) : WellFormedName(n)}

MatchExamples ==
    {<<<<"s", "p", "o", "r", "t", "/", "+", "/", "p", "l", "a", "y", "e", "r", "1">>,
       <<"s", "p", "o", "r", "t", "/", "t", "e", "n", "n", "i", "s", "/", "p", "l", "a", "y", "e", "r", "1">>>>,
     <<<<"s", "p", "o", "r", "t", "/", "#">>,
       <<"s", "p", "o", "r", "t", "/", "t", "e", "n", "n", "i", "s", "/", "p", "l", "a", "y", "e", "r", "1">>>>,
     <<<<"s", "p", "o", "r", "t", "/", "+">>,
       <<"s", "p", "o", "r", "t", "/", "t", "e", "n", "n", "i", "s", "/", "p", "l", "a", "y", "e", "r", "1">>>>,
     <<<<"#">>,
       <<"a", "n", "y", "/", "t", "o", "p", "i", "c">>>>,
     <<<<"+", "/", "+">>,
       <<"a", "/", "b">>>>,
     <<<<"a", "/", "+">>,
       <<"a">>>>}

MatchInputs == (MatchFilters \X MatchNames) \cup MatchExamples

InitMatch ==
    /\ isconnected = FALSE
    /\ keepAliveInterval \in {0, 1}
    /\ cleansession \in BOOLEAN
    /\ ping_outstanding = FALSE
    /\ last_sent = "running"
    /\ last_received = "running"
    /\ packetid = 1
    /\ messageHandlers = [i \in 1..MAX_MESSAGE_HANDLERS |-> [topicFilter |-> NULL, fp |-> NoFP]]
    /\ defaultMessageHandler = NoFP
    /\ pubbuf = NoPacket
    /\ inflightLen = 0
    /\ inflightMsgid = 0
    /\ inflightQoS = QOS0
    /\ pubrel = FALSE
    /\ incomingQoS2messages = [i \in 1..MAX_INCOMING_QOS2_MESSAGES |-> 0]
    /\ \E in \in MatchInputs :
          /\ frame = [NoFrame EXCEPT !.filter = in[1]]
          /\ readbuf = Pkt(PUBLISH, 0, QOS0, 0, 0, in[2])
    /\ pc = "idle"
    /\ timer = "running"
    /\ wire = {}
    /\ calls = <<>>
    /\ cycled = NoCycle
    /\ result = NoResult

\* the call isTopicMatched(topicFilter, topicName), its value as 1 or 0
IsTopicMatched ==
    /\ pc = "idle"
    /\ Finish("isTopicMatched",
              IF isTopicMatched(frame.filter, readbuf.topic) THEN 1 ELSE 0)
    /\ UNCHANGED <<members, timer, frame, wire, calls, cycled>>

NextMatch == IsTopicMatched

SpecMatch == InitMatch /\ [][NextMatch]_vars

(***************************************************************************)
(* SpecIdle: sessions on a transport that takes every write, against a     *)
(* broker that accepts the connection and then sends nothing: each read of *)
(* yield waits for the header byte until the timer has passed.             *)
(***************************************************************************)
\* readPacket's read of the header byte: n is what ipstack.read returns, 1
\* with the first byte of rd, 0 when the timeout passed and nothing came
headerRead(n, rd) == IF n # 1 THEN ReadFailure ELSE rd

ReadsIdle == {headerRead(0, NoPacket)}

NextIdle ==
    \/ \E cs \in BOOLEAN, ka \in {0, 1} : Connect(cs, ka, TRUE, TRUE)
    \/ \E rd \in {headerRead(1, Pkt(CONNACK, 0, 0, 0, 0, NoTopic))} :
          ConnectWait(rd, TRUE, TRUE, TRUE)
    \/ Yield
    \/ \E rd \in ReadsIdle : YieldWait(rd, TRUE, TRUE)
    \/ Disconnect(TRUE)
    \/ Elapse
    \/ Tick
    \/ Return

SpecIdle == Init /\ [][NextIdle]_vars

(***************************************************************************)
(* SpecDecode: readPacket on the bytes of one packet.  The transport gives *)
(* the header byte, then for each read of a length byte a byte or nothing, *)
(* then the rest of the packet or less than that.                          *)
(***************************************************************************)
\* ipstack.read(&c, 1, timeout) did not return 1
NoByte == -1

\* decodePacket, from its len-th read on: [value, len]
RECURSIVE decodeLoop(_, _, _, _)
decodeLoop(bytes, len, value, multiplier) ==
    IF len + 1 > MAX_NO_OF_REMAINING_LENGTH_BYTES
    THEN [value |-> value, len |-> len + 1]
    ELSE IF bytes[len + 1] = NoByte
    THEN [value |-> value, len |-> len + 1]
    ELSE IF bytes[len + 1] \div 128 # 0
    THEN decodeLoop(bytes, len + 1,
                    value + (bytes[len + 1] % 128) * multiplier, multiplier * 128)
    ELSE [value |-> value + (bytes[len + 1] % 128) * multiplier, len |-> len + 1]

decodePacket(bytes) == decodeLoop(bytes, 0, 0, 1)

\* MQTTPacket_encode: the number of bytes the encoding of length takes
MQTTPacket_encode(length) ==
    IF length < 128 THEN 1
    ELSE IF length < 128 * 128 THEN 2
    ELSE IF length < 128 * 128 * 128 THEN 3
    ELSE 4

\* readPacket on the header byte, the reads of the length bytes, and body:
\* whether the read of the rest returned rem_len bytes
readPacketOf(header, bytes, body) ==
    LET rem_len == decodePacket(bytes).value
        len == 1 + MQTTPacket_encode(rem_len)
    IN  IF header = NoByte THEN FAILURE
        ELSE IF rem_len > MAX_MQTT_PACKET_SIZE - len THEN BUFFER_OVERFLOW
        ELSE IF rem_len > 0 /\ ~body THEN FAILURE
        ELSE header

LengthBytes == {0, 1, 128, 129, 255}

LengthReads == [1..MAX_NO_OF_REMAINING_LENGTH_BYTES -> LengthBytes \cup {NoByte}]

InitDecode ==
    /\ isconnected = FALSE
    /\ keepAliveInterval \in {0, 1}
    /\ cleansession \in BOOLEAN
    /\ ping_outstanding = FALSE
    /\ last_sent = "running"
    /\ last_received = "running"
    /\ packetid = 1
    /\ messageHandlers = [i \in 1..MAX_MESSAGE_HANDLERS |-> [topicFilter |-> NULL, fp |-> NoFP]]
    /\ defaultMessageHandler = NoFP
    /\ pubbuf = NoPacket
    /\ inflightLen = 0
    /\ inflightMsgid = 0
    /\ inflightQoS = QOS0
    /\ pubrel = FALSE
    /\ incomingQoS2messages = [i \in 1..MAX_INCOMING_QOS2_MESSAGES |-> 0]
    /\ readbuf = NoPacket
    /\ frame \in [header : {NoByte, CONNACK, PINGRESP}, bytes : LengthReads,
                   body : BOOLEAN]
    /\ pc = "idle"
    /\ timer = "running"
    /\ wire = {}
    /\ calls = <<>>
    /\ cycled = NoCycle
    /\ result = NoResult

\* the call readPacket(timer)
ReadPacket ==
    \E rc \in {readPacketOf(frame.header, frame.bytes, frame.body)} :
        /\ pc = "idle"
        /\ Finish("readPacket", rc)
        /\ last_received' = IF rc >= 0 /\ keepAliveInterval > 0
                            THEN "running" ELSE last_received
        /\ readbuf' = IF rc >= 0 THEN Simple(rc) ELSE readbuf
        /\ UNCHANGED <<isconnected, keepAliveInterval, cleansession, ping_outstanding,
                       last_sent, packetid, messageHandlers, defaultMessageHandler,
                       pubbuf, inflightLen, inflightMsgid, inflightQoS, pubrel,
                       incomingQoS2messages, timer, frame, wire, calls, cycled>>

NextDecode == ReadPacket

SpecDecode == InitDecode /\ [][NextDecode]_vars

(***************************************************************************)
(* SpecLive: every command and yield, and sendPacket write by write, when  *)
(* time advances and every call of the transport returns.  The broker      *)
(* acknowledges, sends packets nobody waits for, or sends nothing.  The    *)
(* writes of the commands are taken whole; those of sendPacket write by    *)
(* write are taken whole, in part, not at all, or fail.                    *)
(***************************************************************************)
\* sendPacket(length, timer): sent = 0
SendPacket(length) ==
    /\ pc = "idle"
    /\ pc' = "send"
    /\ frame' = [length |-> length, sent |-> 0]
    /\ UNCHANGED <<members, timer, wire, calls, cycled, result>>

\* one turn of the loop of sendPacket: n is what ipstack.write returns
Write(n) ==
    /\ pc = "send"
    /\ frame.sent < frame.length /\ timer = "running"
    /\ n <= frame.length - frame.sent
    /\ IF n < 0
       THEN Finish("sendPacket", FAILURE) /\ UNCHANGED frame
       ELSE frame' = [frame EXCEPT !.sent = @ + n] /\ UNCHANGED <<pc, result>>
    /\ UNCHANGED <<members, timer, wire, calls, cycled>>

\* the loop of sendPacket has ended: all is sent, or the timer has expired
SendPacketReturn ==
    /\ pc = "send"
    /\ ~(frame.sent < frame.length /\ timer = "running")
    /\ Finish("sendPacket", IF frame.sent = frame.length THEN SUCCESS ELSE FAILURE)
    /\ last_sent' = IF frame.sent = frame.length /\ keepAliveInterval > 0
                    THEN "running" ELSE last_sent
    /\ UNCHANGED <<isconnected, keepAliveInterval, cleansession, ping_outstanding,
                   last_received, packetid, messageHandlers, defaultMessageHandler,
                   pubbuf, inflightLen, inflightMsgid, inflightQoS, pubrel,
                   incomingQoS2messages, readbuf, timer, frame, wire, calls, cycled>>

SendLengths == {1, 2}

WriteReturns == {-1, 0, 1, 2}

\* what a wait for the packet awaited reads: that packet, a packet of
\* another type, or nothing
ReadsLive(awaited) == {awaited, Simple(PINGRESP), ReadFailure}

\* the turns of the loops: of waitfor, of yield, of sendPacket
Waits ==
    \/ \E rd \in ReadsLive(Pkt(CONNACK, 0, 0, 0, 0, NoTopic)) :
          ConnectWait(rd, TRUE, TRUE, TRUE)
    \/ \E rd \in ReadsLive(Ack(PUBACK, 1)) : PublishWait(rd, TRUE, TRUE)
    \/ \E rd \in ReadsLive(Pkt(SUBACK, 1, 0, 0, 0, NoTopic)) :
          SubscribeWait(rd, TRUE, TRUE)
    \/ \E rd \in ReadsLive(Simple(UNSUBACK)) : UnsubscribeWait(rd, TRUE, TRUE)
    \/ \E rd \in ReadsLive(Simple(PINGRESP)) : YieldWait(rd, TRUE, TRUE)
    \/ \E n \in WriteReturns : Write(n)
    \/ SendPacketReturn

NextLive ==
    \/ \E cs \in BOOLEAN : Connect(cs, 0, TRUE, TRUE)
    \/ \E q \in {QOS0, QOS1} : Publish(q, 0, TRUE, TRUE)
    \/ Subscribe(<<"a">>, QOS0, "h1", TRUE, TRUE)
    \/ Unsubscribe(<<"a">>, TRUE, TRUE)
    \/ Disconnect(TRUE)
    \/ Yield
    \/ \E length \in SendLengths : SendPacket(length)
    \/ Waits
    \/ Tick
    \/ Return

\* time advances, and the call in progress goes on
SpecLive == Init /\ [][NextLive]_vars /\ WF_vars(Tick) /\ WF_vars(Waits)

(***************************************************************************)
(*                              The claims                                 *)
(***************************************************************************)
\* the operation in progress, or just returned, is connect
InConnect == pc \in {"connect", "replay"} \/ (pc = "done" /\ result.op = "connect")

Returned(op) == pc = "done" /\ result.op = op

\* the in-flight record
Record == <<pubbuf, inflightLen, inflightMsgid, inflightQoS>>

\* C1: a connect whose CONNACK carried a return code rc # 0 leaves
\* isconnected false and does not return 0 (it returns rc).
C1_ConnectFollowsConnack ==
    (Returned("connect") /\ frame.connack_rc \notin {0, CONNACK_UNSET})
    => (~isconnected /\ result.rc # SUCCESS)

\* C2: a QoS 1 publish returns 0 only if the PUBACK that ended its wait
\* carries the packet id allocated for it.
C2_PubackIdMatches ==
    (Returned("publish") /\ frame.qos = QOS1 /\ result.rc = SUCCESS) =>
        readbuf = Ack(PUBACK, frame.id)

\* C3: a QoS 2 publish returns 0 only after the PUBREL for its id was sent and
\* the PUBCOMP for its id was received, and in a non-clean session the
\* in-flight record is then cleared.
C3_QoS2Handshake ==
    (Returned("publish") /\ frame.qos = QOS2 /\ result.rc = SUCCESS) =>
        /\ Ack(PUBREL, frame.id) \in wire
        /\ readbuf = Ack(PUBCOMP, frame.id)
        /\ ~cleansession => inflightMsgid = 0

\* C4: the in-flight record of a QoS 1 publish in a non-clean session.
\* (a) A publish that fails after serializing its PUBLISH, at the write or in
\*     the wait for the PUBACK, leaves the record holding that PUBLISH.
C4_FailureKeepsRecord ==
    (/\ pc \in {"idle", "publish"} /\ pc' = "done" /\ result'.op = "publish"
     /\ frame'.qos = QOS1 /\ ~cleansession /\ isconnected /\ ~isconnected')
    => Record' = <<Pkt(PUBLISH, frame'.id, QOS1, 0, 0, NoTopic), PublishLen(QOS1),
                   frame'.id, QOS1>>

\* (b) The record changes only when publish(topicName, ...) writes it or when
\*     the awaited PUBACK with its id clears inflightMsgid: not on a failure,
\*     not on disconnect, not during connect's wait for the CONNACK.
C4_RecordPreserved ==
    Record' # Record =>
        \/ pc = "idle" /\ isconnected /\ result'.op \in {"publish", "none"}
                       /\ pc' \in {"publish", "done"}
        \/ /\ pc \in {"publish", "replay"} /\ pc' = "done"
           /\ readbuf' = Ack(PUBACK, inflightMsgid)
           /\ Record' = <<pubbuf, inflightLen, 0, inflightQoS>>

\* (c) When connect's wait ends with a CONNACK and a record of a QoS 1 publish
\*     exists, connect writes the stored PUBLISH, with the id of the record,
\*     and waits for its PUBACK, unless that write fails, and then connect
\*     returns FAILURE.
C4_ConnectResends ==
    (/\ pc = "connect" /\ pc' # "connect" /\ readbuf'.type = CONNACK
     /\ inflightMsgid > 0 /\ inflightQoS = QOS1)
    => \/ /\ pc' = "replay"
          /\ pubbuf \in wire'
          /\ pubbuf.type = PUBLISH /\ pubbuf.id = inflightMsgid
       \/ /\ pc' = "done" /\ result'.rc = FAILURE /\ ~isconnected'
          /\ pubbuf \notin wire'

\* (d) A PUBACK with the id of the record that arrives during this replay
\*     clears inflightMsgid.
C4_ReplayAckClears ==
    (pc = "replay" /\ timer = "running" /\ readbuf' = Ack(PUBACK, inflightMsgid)
       /\ readbuf' # readbuf)
    => inflightMsgid' = 0 /\ pc' = "done" /\ result'.rc = SUCCESS

C4_InflightKeptAndReplayed ==
    [][/\ C4_FailureKeepsRecord
       /\ C4_RecordPreserved
       /\ C4_ConnectResends
       /\ C4_ReplayAckClears]_vars

\* C4, its case: a connect has sent the stored QoS 1 PUBLISH again, received
\* the PUBACK with its id, cleared the record and returned 0.
C4_Witness ==
    /\ Returned("connect") /\ result.rc = SUCCESS
    /\ ~cleansession
    /\ pubbuf.type = PUBLISH /\ pubbuf.qos = QOS1 /\ pubbuf \in wire
    /\ readbuf = Ack(PUBACK, pubbuf.id)
    /\ inflightMsgid = 0

\* C5: every PUBLISH connect writes after a CONNACK with return code 0 has
\* its DUP flag set.
C5_ResendHasDup ==
    (InConnect /\ frame.connack_rc = 0) => \A p \in wire : p.type = PUBLISH => p.dup = 1

\* C6: once cycle has received the PUBREC for the in-flight QoS 2 publish and
\* has sent the PUBREL for it, the pubrel flag is true.
C6_PubrecSetsPubrel ==
    (/\ inflightMsgid > 0 /\ inflightQoS = QOS2
     /\ readbuf = Ack(PUBREC, inflightMsgid)
     /\ Ack(PUBREL, inflightMsgid) \in wire)
    => pubrel

\* C7: a connect with clean_session = true, answered by a CONNACK with return
\* code 0, writes no stored PUBLISH.
C7_CleanSessionNoReplay ==
    (InConnect /\ cleansession /\ frame.connack_rc = 0) => \A p \in wire : p.type # PUBLISH

\* C8: a QoS 0 publish that returns 0 leaves the in-flight record as it was.
C8_QoS0KeepsRecord ==
    [][(/\ pc = "idle" /\ pc' = "done" /\ result'.op = "publish"
        /\ frame'.qos = QOS0 /\ result'.rc = SUCCESS)
       => Record' = Record]_vars

\* C9: subscribe with an empty slot.  A SUBACK granting 0, 1 or 2 makes it
\* return 0 and fill one empty slot with {filter, fp}; a SUBACK carrying 0x80
\* makes it return 0x80 and leave the table; and the table changes in no step
\* but one that received a SUBACK granting 0, 1 or 2.
GrantedSuback(p) == p.type = SUBACK /\ p.ok /\ p.val \in QoSs

C9_SubscribeInstalls ==
    [][/\ (pc = "subscribe" /\ pc' = "done" /\ EmptySlot # 0 /\ GrantedSuback(readbuf'))
          => /\ result'.rc = 0
             /\ \E i \in 1..MAX_MESSAGE_HANDLERS :
                  /\ messageHandlers[i].topicFilter = NULL
                  /\ messageHandlers' = [messageHandlers EXCEPT ![i] =
                         [topicFilter |-> frame.filter, fp |-> frame.fp]]
       /\ (/\ pc = "subscribe" /\ pc' = "done" /\ EmptySlot # 0
           /\ readbuf'.type = SUBACK /\ readbuf'.ok /\ readbuf'.val = SUBFAIL)
          => result'.rc = SUBFAIL /\ messageHandlers' = messageHandlers
       /\ messageHandlers' # messageHandlers
          => pc = "subscribe" /\ GrantedSuback(readbuf')]_vars

\* C10: with every slot occupied, a granted subscription does not return 0
\* and installs nothing.
C10_FullTableFails ==
    [][(pc = "subscribe" /\ pc' = "done" /\ EmptySlot = 0 /\ GrantedSuback(readbuf'))
       => result'.rc # 0 /\ messageHandlers' = messageHandlers]_vars

\* C11: a subscribe that returns the 0x80 of a refusing SUBACK leaves
\* isconnected true.
C11_RejectKeepsConnected ==
    (Returned("subscribe") /\ result.rc = SUBFAIL) => isconnected

\* C12: after unsubscribe(filter) has returned 0 no handler slot holds filter,
\* and after disconnect() every handler slot is empty.
C12_HandlersRemoved ==
    /\ (Returned("unsubscribe") /\ result.rc = SUCCESS)
       => \A i \in 1..MAX_MESSAGE_HANDLERS : messageHandlers[i].topicFilter # frame.filter
    /\ (Returned("disconnect") /\ result.rc = SUCCESS)
       => \A i \in 1..MAX_MESSAGE_HANDLERS : messageHandlers[i].topicFilter = NULL

\* the step is one turn of the loop of waitfor or yield in which a cycle ran
CycleStep ==
    /\ pc \notin {"idle", "done"} /\ timer = "running" /\ timer' = timer
    /\ ~(last_sent = "running" /\ last_sent' = "expired")
    /\ ~(last_received = "running" /\ last_received' = "expired")

Count(h, cs) == Cardinality({k \in 1..Len(cs) : cs[k] = h})

Occupied == {i \in 1..MAX_MESSAGE_HANDLERS : messageHandlers[i].topicFilter # NULL}

\* C13: when every subscription made was subscribe(f, qos, h), granted, an
\* inbound QoS 0 or QoS 1 PUBLISH whose topic f matches, if it invokes
\* anything, invokes h once.
C13_HandlerInvokedOnce ==
    \A f \in Filters, h \in FPs :
        (/\ Occupied # {}
         /\ \A i \in Occupied : messageHandlers[i] = [topicFilter |-> f, fp |-> h]
         /\ readbuf.type = PUBLISH /\ readbuf.ok /\ readbuf.qos # QOS2
         /\ isTopicMatched(f, readbuf.topic)
         /\ calls # <<>>)
        => calls = <<h>>

\* C14: inbound QoS 2 messages and the set of their ids.
\* (a) A cycle that reads a QoS 2 PUBLISH whose id is in the set invokes no
\*     handler, leaves the set, and, when it returns PUBLISH, has written
\*     the PUBREC for that id.
C14_DuplicateAcknowledged ==
    (/\ CycleStep
     /\ readbuf'.type = PUBLISH /\ readbuf'.ok /\ readbuf'.qos = QOS2
     /\ ~isQoS2msgidFree(incomingQoS2messages, readbuf'.id))
    => /\ calls' = <<>>
       /\ incomingQoS2messages' = incomingQoS2messages
       /\ cycled'.rc = PUBLISH => cycled'.sent = <<Ack(PUBREC, readbuf'.id)>>

\* (b) A cycle that invokes a handler for a QoS 2 PUBLISH found its id
\*     outside the set and has put it in.
C14_DeliveredOnceRecorded ==
    (/\ CycleStep
     /\ readbuf'.type = PUBLISH /\ readbuf'.ok /\ readbuf'.qos = QOS2
     /\ calls' # <<>>)
    => /\ isQoS2msgidFree(incomingQoS2messages, readbuf'.id)
       /\ ~isQoS2msgidFree(incomingQoS2messages', readbuf'.id)

\* (c) An id leaves the set only in a cycle that read the PUBREL for it and
\*     wrote the PUBCOMP.
C14_ReleasedByPubrel ==
    \A i \in InboundIds :
        (/\ ~isQoS2msgidFree(incomingQoS2messages, i)
         /\ isQoS2msgidFree(incomingQoS2messages', i))
        => /\ CycleStep
           /\ readbuf' = Ack(PUBREL, i)
           /\ cycled' = [rc |-> PUBREL, sent |-> <<Ack(PUBCOMP, i)>>]

C14_QoS2Deduplicated ==
    [][/\ C14_DuplicateAcknowledged
       /\ C14_DeliveredOnceRecorded
       /\ C14_ReleasedByPubrel]_vars

\* C14, its case: with a handler subscribed to the topic, yield has read a
\* QoS 2 PUBLISH whose id is in the set, written the PUBREC and invoked
\* nothing.
C14_Witness ==
    /\ pc = "yield"
    /\ readbuf \in PublishesQoS2
    /\ ~isQoS2msgidFree(incomingQoS2messages, readbuf.id)
    /\ \E i \in Occupied : HandlerFires(messageHandlers[i], readbuf.topic)
    /\ cycled = [rc |-> PUBLISH, sent |-> <<Ack(PUBREC, readbuf.id)>>]
    /\ calls = <<>>

\* C15: a publish, subscribe or unsubscribe called while isconnected is
\* false returns at once, returns FAILURE, writes nothing, takes no packet id
\* and leaves every member of the client as it was.
C15_NotConnectedNoEffect ==
    [][(pc = "idle" /\ ~isconnected)
       => /\ pc' \notin {"publish", "subscribe", "unsubscribe"}
          /\ result'.op \in {"publish", "subscribe", "unsubscribe"}
             => /\ result'.rc = FAILURE
                /\ wire' = {}
                /\ members' = members]_vars

\* C15, its case: a subscribe has been refused for want of a connection
\* while an in-flight record and a handler exist.
C15_Witness ==
    /\ Returned("subscribe") /\ result.rc = FAILURE
    /\ frame = NoFrame /\ wire = {}
    /\ ~isconnected
    /\ inflightMsgid > 0
    /\ Occupied # {}

\* the acknowledgement a command waits for
Expected(op, qos) ==
    CASE op = "publish" /\ qos = QOS1 -> PUBACK
      [] op = "publish" /\ qos = QOS2 -> PUBCOMP
      [] op = "subscribe" -> SUBACK
      [] op = "unsubscribe" -> UNSUBACK
      [] OTHER -> 0

\* C16: a QoS 1 or QoS 2 publish, a subscribe or an unsubscribe that has
\* written its packet and returns without having received the
\* acknowledgement it waits for returns a non-zero code and leaves
\* isconnected false.
C16_NoAckDisconnects ==
    (/\ pc = "done" /\ Expected(result.op, frame.qos) # 0
     /\ wire # {}
     /\ readbuf.type # Expected(result.op, frame.qos))
    => (result.rc # SUCCESS /\ ~isconnected)

\* C17: a yield that returns FAILURE leaves isconnected false.
C17_YieldFailureDisconnects ==
    (Returned("yield") /\ result.rc = FAILURE) => ~isconnected

\* the step is a cycle whose keepalive wrote a PINGREQ
PingSent == CycleStep /\ Simple(PINGREQ) \in Range(cycled'.sent)

\* C18: keepalive bookkeeping.
\* (a) A PINGREQ is written only by a cycle, with keepAliveInterval > 0,
\*     when last_sent or last_received had expired, and when ping_outstanding
\*     was false or the cycle has just processed a PINGRESP; a cycle writes
\*     at most one.
C18_PingOnlyWhenDue ==
    /\ Simple(PINGREQ) \in wire' /\ Simple(PINGREQ) \notin wire => PingSent
    /\ PingSent
       => /\ keepAliveInterval > 0
          /\ last_sent = "expired" \/ last_received = "expired"
          /\ ~ping_outstanding \/ cycled'.rc = PINGRESP
          /\ Count(Simple(PINGREQ), cycled'.sent) = 1

\* (b) ping_outstanding becomes true exactly in a cycle that wrote a PINGREQ,
\*     and becomes false exactly in a cycle that processed a PINGRESP and
\*     wrote no PINGREQ after it.
C18_PingOutstanding ==
    /\ PingSent => ping_outstanding'
    /\ ~ping_outstanding /\ ping_outstanding' => PingSent
    /\ ping_outstanding /\ ~ping_outstanding'
       => CycleStep /\ cycled'.rc = PINGRESP
    /\ CycleStep /\ cycled'.rc = PINGRESP /\ ~PingSent => ~ping_outstanding'

C18_KeepaliveBookkeeping ==
    [][C18_PingOnlyWhenDue /\ C18_PingOutstanding]_vars

\* C18, its case: with a PINGREQ outstanding and the countdowns run out, the
\* last cycle of a yield has read nothing and written no second PINGREQ.
C18_Witness ==
    /\ Returned("yield") /\ keepAliveInterval > 0
    /\ ping_outstanding
    /\ last_sent = "expired" /\ last_received = "expired"
    /\ cycled = [rc |-> FAILURE, sent |-> <<>>]

\* The rules of the topic matcher, on levels: + matches one level, # the
\* levels that remain, none included, and a literal level matches itself.
RECURSIVE LevelsMatch(_, _)
LevelsMatch(fl, nl) ==
    IF fl = <<>> THEN nl = <<>>
    ELSE IF fl[1] = <<"#">> THEN TRUE
    ELSE IF nl = <<>> THEN FALSE
    ELSE (fl[1] = <<"+">> \/ fl[1] = nl[1]) /\ LevelsMatch(Tail(fl), Tail(nl))

\* C19: isTopicMatched(filter, topic) returns true if and only if the
\* filter matches the topic under the rules of the matcher.
C19_MatcherFollowsRules ==
    Returned("isTopicMatched")
    => (result.rc = 1 <=> LevelsMatch(Levels(frame.filter), Levels(readbuf.topic)))

\* C20: waitfor returns as soon as a cycle returns a negative code: an
\* operation whose last cycle returned FAILURE or BUFFER_OVERFLOW is no
\* longer waiting for its acknowledgement.
C20_WaitEndsOnNegativeCode ==
    pc \in {"connect", "replay", "publish", "subscribe", "unsubscribe"}
    => cycled.rc >= 0

\* C21: a yield during which the broker sends nothing and the transport
\* reports no error returns success.
C21_IdleYieldSucceeds ==
    (Returned("yield") /\ isconnected) => result.rc = SUCCESS

\* the length bytes read ask for a fifth byte: all four have the
\* continuation bit set
FifthByteRequired(bytes) ==
    \A k \in 1..MAX_NO_OF_REMAINING_LENGTH_BYTES :
        bytes[k] # NoByte /\ bytes[k] \div 128 # 0

\* a read of a length byte fails: the bytes before it have the continuation
\* bit set
LengthReadFails(bytes) ==
    \E k \in 1..MAX_NO_OF_REMAINING_LENGTH_BYTES :
        /\ bytes[k] = NoByte
        /\ \A j \in 1..(k - 1) : bytes[j] # NoByte /\ bytes[j] \div 128 # 0

\* C22: readPacket returns a failure code when the Remaining Length would
\* need a fifth byte or a read of one of its bytes fails.
C22_LengthDecodingFails ==
    (/\ Returned("readPacket")
     /\ FifthByteRequired(frame.bytes) \/ LengthReadFails(frame.bytes))
    => result.rc < 0

\* C23: every invocation of connect, publish, subscribe, unsubscribe,
\* disconnect and yield, and every sendPacket, eventually returns.
C23_OperationsReturn == (pc \notin {"idle", "done"}) ~> (pc = "done")

\* C23: a subscribe has returned after its timer expired, the last packet
\* read being of another type than the SUBACK it waited for.
C23_Witness ==
    /\ Returned("subscribe") /\ timer = "expired"
    /\ wire # {} /\ readbuf.type = PINGRESP

\* C24: after a successful connect no PINGREQ is outstanding but one that
\* this connect itself has sent.
C24_ConnectClearsPing ==
    (/\ Returned("connect") /\ result.rc = SUCCESS
     /\ Simple(PINGREQ) \notin wire)
    => ~ping_outstanding

\* C25: a cycle that writes the PUBREC for an inbound QoS 2 PUBLISH with a
\* non-zero id leaves that id in the set of inbound QoS 2 ids.
C25_AcknowledgedIsRecorded ==
    [][(/\ CycleStep
        /\ readbuf'.type = PUBLISH /\ readbuf'.ok /\ readbuf'.qos = QOS2
        /\ readbuf'.id # 0
        /\ Ack(PUBREC, readbuf'.id) \in Range(cycled'.sent))
       => ~isQoS2msgidFree(incomingQoS2messages', readbuf'.id)]_vars

====
